---- MODULE Spec2Model ----
(***************************************************************************)
(* The embedding service of src/embedding_service/main.py: one hnswlib     *)
(* cosine index held in process memory, persisted to INDEX_PATH after      *)
(* every successful add, loaded from INDEX_PATH when the process starts,   *)
(* and served by two request handlers (add_file, search_files) that run    *)
(* on a single asyncio event loop.                                         *)
(*                                                                         *)
(* Vectors are sequences of small naturals.  The index stores a vector's   *)
(* direction (hnswlib's cosine space normalises on insert and on query);   *)
(* distances are cosine distances in units of 1/Scale.                     *)
(***************************************************************************)
EXTENDS Integers, Sequences, FiniteSets

\* dim = model.get_sentence_embedding_dimension(), kept small
Dim == 2

\* ------------------------------------------------------------------ bounds
\* an embedding is a 0/1 direction times a factor in 0..MaxMagnitude
MaxMagnitude == 2
\* new ids are added while the index holds fewer than MaxEntries entries
MaxEntries == 2
\* capacities of artifacts found at INDEX_PATH before the first start
MaxCap == 1
\* k of a search request ranges over -1..MaxK
MaxK == 2
\* requests accepted by the server whose handler has not started
MaxQueued == 1
\* distances are integers in units of 1/Scale
Scale == 100

\* ------------------------------------------------------- program constants
max_elements == 10000

\* A Python int has no width: sign and magnitude, the magnitude as IntLimbs
\* limbs of 16 bits, most significant first.  A label (size_t) has LabelLimbs
\* limbs, 64 bits.
LimbBase == 2^16
LabelLimbs == 4
IntLimbs == LabelLimbs + 1

RECURSIVE LimbsOf(_, _)
LimbsOf(x, n) ==
    IF n = 0 THEN <<>> ELSE Append(LimbsOf(x \div LimbBase, n - 1), x % LimbBase)

PyInt(n) == [neg |-> n < 0, mag |-> LimbsOf(IF n < 0 THEN -n ELSE n, IntLimbs)]

\* 2^64, the least int above every label
TwoToLabelBits ==
    [neg |-> FALSE, mag |-> [i \in 1..IntLimbs |-> IF i = IntLimbs - LabelLimbs THEN 1 ELSE 0]]

\* file_id is any int; -1 and 0 are what a client sends for a new file.  The
\* code tells ids apart only by what np.array and the binding make of them: one
\* negative id, zero, one positive id and one id that no 64-bit integer holds
FileIds == {PyInt(-1), PyInt(0), PyInt(1), TwoToLabelBits}
Scaled(v, c) == [i \in 1..Len(v) |-> c * v[i]]
VectorsOfLen(n) == {Scaled(v, c) : v \in [1..n -> {0, 1}], c \in 0..MaxMagnitude}
Vectors == VectorsOfLen(Dim)
ShortVectors == VectorsOfLen(Dim - 1)
Embeddings == Vectors \cup ShortVectors
KValues == (-1)..MaxK
Capacities == 1..MaxCap

VARIABLES proc, index, file, queued, running, resp, acked

vars == <<proc, index, file, queued, running, resp, acked>>

\* ------------------------------------------------------------- arithmetic
RECURSIVE SumTo(_, _, _)
SumTo(a, b, n) == IF n = 0 THEN 0 ELSE a[n] * b[n] + SumTo(a, b, n - 1)

Dot(a, b) == SumTo(a, b, Len(a))

RECURSIVE GcdNat(_, _)
GcdNat(x, y) == IF y = 0 THEN x ELSE GcdNat(y, x % y)

RECURSIVE GcdTo(_, _)
GcdTo(a, n) == IF n = 0 THEN 0 ELSE GcdNat(a[n], GcdTo(a, n - 1))

RECURSIVE ISqrtIn(_, _, _)
ISqrtIn(x, lo, hi) ==
    IF lo >= hi THEN lo
    ELSE LET mid == (lo + hi + 1) \div 2
         IN  IF mid * mid <= x THEN ISqrtIn(x, mid, hi) ELSE ISqrtIn(x, lo, mid - 1)

ISqrt(x) == ISqrtIn(x, 0, Scale)

Min(a, b) == IF a <= b THEN a ELSE b
Max(a, b) == IF a >= b THEN a ELSE b

\* ------------------------------------------------ hnswlib.Index, space="cosine"
\* The cosine space keeps only a vector's direction: x / (|x| + 1e-30), which
\* leaves the zero vector zero.  Here: division by the gcd of the components.
Normalize(v) ==
    LET g == GcdTo(v, Len(v))
    IN  IF g = 0 THEN v ELSE [i \in 1..Len(v) |-> v[i] \div g]

\* 1 - dot(a, b) / (|a| * |b|) in units of 1/Scale; a zero vector normalises to
\* itself, so its inner product with anything is 0 and its distance is 1.
CosineDistance(a, b) ==
    LET na == Dot(a, a)
        nb == Dot(b, b)
        d  == Dot(a, b)
    IN  IF na = 0 \/ nb = 0 THEN Scale
        ELSE IF d >= 0 THEN Scale - ISqrt((Scale * Scale * d * d) \div (na * nb))
        ELSE Scale + ISqrt((Scale * Scale * d * d) \div (na * nb))

\* the low LabelLimbs limbs of a magnitude
LowLimbs(mag) == SubSeq(mag, IntLimbs - LabelLimbs + 1, IntLimbs)

\* np.array([file_id]) is an int64 array for an id in -2^63..2^63-1 and a
\* uint64 array for one in 2^63..2^64-1; for any other id it is an array of
\* objects, which the binding cannot turn into an array of size_t
InLabelRange(file_id) ==
    LET low == LowLimbs(file_id.mag)
    IN  /\ \A i \in 1..(IntLimbs - LabelLimbs) : file_id.mag[i] = 0
        /\ file_id.neg =>
              \/ low[1] < LimbBase \div 2
              \/ low[1] = LimbBase \div 2 /\ \A i \in 2..LabelLimbs : low[i] = 0

\* 2^64 - l for a magnitude l > 0: the limbs below the lowest limb that is not
\* zero stay zero, that limb is negated, the limbs above it are complemented
Negated(l) ==
    LET j == CHOOSE j \in DOMAIN l :
                 l[j] # 0 /\ \A i \in DOMAIN l : i > j => l[i] = 0
    IN  [i \in DOMAIN l |->
            IF i > j THEN 0
            ELSE IF i = j THEN LimbBase - l[i]
            ELSE LimbBase - 1 - l[i]]

\* The binding takes the ids as an array of size_t: the int64 array is cast
\* to unsigned, so a negative id wraps around modulo 2^64.
ToLabel(file_id) ==
    IF file_id.neg THEN Negated(LowLimbs(file_id.mag)) ELSE LowLimbs(file_id.mag)

\* int(label), line 60
FromLabel(label) ==
    [neg |-> FALSE,
     mag |-> [i \in 1..IntLimbs |->
                 IF i <= IntLimbs - LabelLimbs THEN 0
                 ELSE label[i - (IntLimbs - LabelLimbs)]]]

\* labels compared as unsigned integers
LabelLess(a, b) ==
    \E i \in DOMAIN a : a[i] < b[i] /\ \A j \in 1..(i - 1) : a[j] = b[j]

\* label -> internal id, as hnswlib's label_lookup_
LookupOf(data) ==
    [l \in {data[i].label : i \in DOMAIN data} |->
        CHOOSE i \in DOMAIN data : data[i].label = l]

NoIndex == [initialized |-> FALSE]

\* index.init_index(max_elements=..., ef_construction=..., M=...)
init_index(cap, efc, m) ==
    [initialized |-> TRUE, max_elements |-> cap, ef_construction |-> efc,
     M |-> m, ef |-> 10, data |-> <<>>, label_lookup |-> LookupOf(<<>>)]

\* index.set_ef(ef)
set_ef(idx, e) == [idx EXCEPT !.ef = e]

\* add_items as it would be if an id already stored were left as it is
add_items_keeps_old_vector(idx, embedding, file_id) ==
    LET label == ToLabel(file_id)
    IN
        IF Len(embedding) # Dim
        THEN [ok |-> FALSE, error |-> "DimensionMismatch", index |-> idx, created |-> FALSE]
        ELSE IF ~InLabelRange(file_id)
        THEN [ok |-> FALSE, error |-> "IdOutOfRange", index |-> idx, created |-> FALSE]
        ELSE IF label \in DOMAIN idx.label_lookup
        THEN [ok |-> TRUE, error |-> "", index |-> idx, created |-> FALSE]
        ELSE IF Len(idx.data) >= idx.max_elements
        THEN [ok |-> FALSE, error |-> "CapacityExceeded", index |-> idx, created |-> FALSE]
        ELSE LET data == Append(idx.data, [label |-> label, vec |-> Normalize(embedding)])
             IN  [ok |-> TRUE, error |-> "",
                  index |-> [idx EXCEPT !.data = data, !.label_lookup = LookupOf(data)],
                  created |-> TRUE]

\* add_items as it would be without the capacity check
add_items_unbounded(idx, embedding, file_id) ==
    LET label == ToLabel(file_id)
    IN
        IF Len(embedding) # Dim
        THEN [ok |-> FALSE, error |-> "DimensionMismatch", index |-> idx, created |-> FALSE]
        ELSE IF ~InLabelRange(file_id)
        THEN [ok |-> FALSE, error |-> "IdOutOfRange", index |-> idx, created |-> FALSE]
        ELSE IF label \in DOMAIN idx.label_lookup
        THEN [ok |-> TRUE, error |-> "",
              index |-> [idx EXCEPT !.data[idx.label_lookup[label]].vec = Normalize(embedding)],
              created |-> FALSE]
        ELSE LET data == Append(idx.data, [label |-> label, vec |-> Normalize(embedding)])
             IN  [ok |-> TRUE, error |-> "",
                  index |-> [idx EXCEPT !.data = data, !.label_lookup = LookupOf(data)],
                  created |-> TRUE]

\* add_items as it would be if a vector of another length were padded with
\* zeros or cut to dim
add_items_pads(idx, embedding, file_id) ==
    LET label == ToLabel(file_id)
    IN
        LET fitted == [i \in 1..Dim |-> IF i <= Len(embedding) THEN embedding[i] ELSE 0]
        IN  IF ~InLabelRange(file_id)
            THEN [ok |-> FALSE, error |-> "IdOutOfRange", index |-> idx, created |-> FALSE]
            ELSE IF label \in DOMAIN idx.label_lookup
            THEN [ok |-> TRUE, error |-> "",
                  index |-> [idx EXCEPT !.data[idx.label_lookup[label]].vec = Normalize(fitted)],
                  created |-> FALSE]
            ELSE IF Len(idx.data) >= idx.max_elements
            THEN [ok |-> FALSE, error |-> "CapacityExceeded", index |-> idx, created |-> FALSE]
            ELSE LET data == Append(idx.data, [label |-> label, vec |-> Normalize(fitted)])
                 IN  [ok |-> TRUE, error |-> "",
                      index |-> [idx EXCEPT !.data = data, !.label_lookup = LookupOf(data)],
                      created |-> TRUE]

\* index.add_items(np.array([embedding]), np.array([file_id])): the shape
\* check comes first; then the ids are taken as size_t, which fails for an id
\* outside the 64-bit range; the id becomes an unsigned label; a label
\* already present is updated in place; a new label is appended unless the
\* index is full.
add_items(idx, embedding, file_id) ==
    LET label == ToLabel(file_id)
    IN
        IF Len(embedding) # Dim
        THEN [ok |-> FALSE, error |-> "DimensionMismatch", index |-> idx, created |-> FALSE]
        ELSE IF ~InLabelRange(file_id)
        THEN [ok |-> FALSE, error |-> "IdOutOfRange", index |-> idx, created |-> FALSE]
        ELSE IF label \in DOMAIN idx.label_lookup
        THEN [ok |-> TRUE, error |-> "",
              index |-> [idx EXCEPT !.data[idx.label_lookup[label]].vec = Normalize(embedding)],
              created |-> FALSE]
        ELSE IF Len(idx.data) >= idx.max_elements
        THEN [ok |-> FALSE, error |-> "CapacityExceeded", index |-> idx, created |-> FALSE]
        ELSE LET data == Append(idx.data, [label |-> label, vec |-> Normalize(embedding)])
             IN  [ok |-> TRUE, error |-> "",
                  index |-> [idx EXCEPT !.data = data, !.label_lookup = LookupOf(data)],
                  created |-> TRUE]

\* distance of every stored element to the query, by internal id
RECURSIVE Distances(_, _, _)
Distances(data, q, n) ==
    IF n = 0 THEN <<>>
    ELSE Append(Distances(data, q, n - 1), CosineDistance(data[n].vec, q))

\* searchKnn as it would be if it kept the farthest elements
NearestIds_farthest(dist, ef, k) ==
    LET n == Len(dist)
        Before(i, j) == dist[i] > dist[j] \/ (dist[i] = dist[j] /\ i < j)
        Rank(i) == Cardinality({j \in 1..n : Before(j, i)}) + 1
    IN  {i \in 1..n : Rank(i) <= Max(ef, k) /\ Rank(i) <= k}

\* searchKnn: the max(ef, k) nearest elements by (distance, internal id), cut
\* to the k nearest
NearestIds(dist, ef, k) ==
    LET n == Len(dist)
        Before(i, j) == dist[i] < dist[j] \/ (dist[i] = dist[j] /\ i < j)
        Rank(i) == Cardinality({j \in 1..n : Before(j, i)}) + 1
    IN  {i \in 1..n : Rank(i) <= Max(ef, k) /\ Rank(i) <= k}

\* the rows of the result, ascending by (distance, label)
Rows(data, dist, kept) ==
    LET LabelBefore(i, j) ==
            dist[i] < dist[j] \/ (dist[i] = dist[j] /\ LabelLess(data[i].label, data[j].label))
        Pos(i) == Cardinality({j \in kept : LabelBefore(j, i)}) + 1
    IN  [p \in 1..Cardinality(kept) |->
            LET i == CHOOSE i \in kept : Pos(i) = p
            IN  [file_id |-> FromLabel(data[i].label), distance |-> dist[i]]]

\* the binding refuses a result of fewer than k rows
QueryResult(data, dist, kept, k) ==
    IF Cardinality(kept) # k
    THEN [ok |-> FALSE, error |-> "ResultShape", results |-> <<>>]
    ELSE [ok |-> TRUE, error |-> "", results |-> Rows(data, dist, kept)]

\* index.knn_query(np.array([query_emb]), k=k).  k is a size_t in the binding,
\* so a negative k is refused before the search.
knn_query(idx, query_emb, k) ==
    IF k < 0 THEN [ok |-> FALSE, error |-> "InvalidK", results |-> <<>>]
    ELSE IF Len(query_emb) # Dim
    THEN [ok |-> FALSE, error |-> "DimensionMismatch", results |-> <<>>]
    ELSE LET dist == Distances(idx.data, Normalize(query_emb), Len(idx.data))
         IN  QueryResult(idx.data, dist, NearestIds(dist, idx.ef, k), k)

\* ------------------------------------------------------------ INDEX_PATH
Absent == [kind |-> "absent"]
\* what an interrupted or failing save_index leaves: the file is opened for
\* writing (and so emptied) before anything is written to it
Truncated == [kind |-> "truncated"]

\* index.save_index(INDEX_PATH), when every write reaches the file
save_index(idx) ==
    [kind |-> "artifact", max_elements |-> idx.max_elements,
     ef_construction |-> idx.ef_construction, M |-> idx.M,
     cur_element_count |-> Len(idx.data), data |-> idx.data]

\* load_index as it would be if it read one element fewer than were saved
load_index_drops_last(f) ==
    LET data == SubSeq(f.data, 1, f.cur_element_count - 1)
    IN  [initialized |-> TRUE, max_elements |-> f.max_elements,
         ef_construction |-> f.ef_construction, M |-> f.M, ef |-> 10,
         data |-> data, label_lookup |-> LookupOf(data)]

\* index.load_index(INDEX_PATH) into a fresh hnswlib.Index: the capacity is
\* the persisted one, the label lookup is rebuilt, ef is back at its default.
load_index(f) ==
    LET data == SubSeq(f.data, 1, f.cur_element_count)
    IN  [initialized |-> TRUE, max_elements |-> f.max_elements,
         ef_construction |-> f.ef_construction, M |-> f.M, ef |-> 10,
         data |-> data, label_lookup |-> LookupOf(data)]

\* artifacts that may sit at INDEX_PATH before the service first starts
InitialFiles ==
    {Absent} \cup {save_index(init_index(c, 200, 16)) : c \in Capacities}

\* --------------------------------------------------------------- responses
Response(op, status, error, file_id, created, k, results) ==
    [op |-> op, status |-> status, error |-> error, file_id |-> file_id,
     created |-> created, k |-> k, results |-> results]

NoResp == Response("none", 0, "", PyInt(0), FALSE, 0, <<>>)

\* a handler that has started and not yet returned
Handler(pc, file_id, created) ==
    [op |-> "add_file", pc |-> pc, file_id |-> file_id, created |-> created]

\* the handlers as they would be if each request ran on its own thread
LoopFree_threaded == TRUE

\* Both handlers are coroutines without an await: the event loop runs one to
\* its return before it starts the next.
LoopFree == running = {}

\* outputs of model.encode (line 56): unit vectors, here the directions
QueryEmbeddings == {v \in Vectors : Dot(v, v) > 0 /\ Normalize(v) = v}

\* ------------------------------------------------------------------ actions
Init ==
    /\ proc = "down"
    /\ index = NoIndex
    /\ file \in InitialFiles
    /\ queued = 0
    /\ running = {}
    /\ resp = NoResp
    /\ acked = {}

\* lines 35-41, run when the module is imported
Startup ==
    /\ proc = "down"
    /\ IF file.kind = "absent"
       THEN /\ index' = set_ef(init_index(max_elements, 200, 16), 50)
            /\ proc' = "up"
       ELSE IF file.kind = "artifact"
       THEN /\ index' = set_ef(load_index(file), 50)
            /\ proc' = "up"
       ELSE /\ index' = NoIndex
            /\ proc' = "failed"
    /\ UNCHANGED <<file, queued, running, resp, acked>>

\* the server accepts a request; its handler has not started
Arrive ==
    /\ proc = "up"
    /\ queued < MaxQueued
    /\ queued' = queued + 1
    /\ UNCHANGED <<proc, index, file, running, resp, acked>>

\* add_file after index.add_items (line 72) gave r: on to save_index, or out
\* with the exception
AfterAddItems(file_id, r) ==
    IF r.ok
    THEN /\ r.created => Len(index.data) < MaxEntries
         /\ index' = r.index
         /\ running' = running \cup {Handler("save_index", file_id, r.created)}
         /\ resp' = NoResp
    ELSE /\ resp' = Response("add_file", 500, r.error, file_id, FALSE, 0, <<>>)
         /\ UNCHANGED <<index, running>>

\* add_file up to the return of index.add_items (line 72)
AddItems ==
    /\ proc = "up"
    /\ queued > 0
    /\ LoopFree
    /\ \E file_id \in FileIds, embedding \in Embeddings :
         AfterAddItems(file_id, add_items(index, embedding, file_id))
    /\ queued' = queued - 1
    /\ UNCHANGED <<proc, file, acked>>

\* index.save_index (line 73) opens INDEX_PATH for writing
SaveOpen ==
    /\ proc = "up"
    /\ \E h \in running :
         /\ h.pc = "save_index"
         /\ running' = (running \ {h}) \cup {Handler("save_write", h.file_id, h.created)}
    /\ file' = Truncated
    /\ UNCHANGED <<proc, index, queued, resp, acked>>

\* index.save_index writes the index and closes the file, and add_file
\* returns (lines 73-74); hnswlib does not look at the stream's state, so a
\* write that the disk refuses goes unnoticed
SaveWrite ==
    /\ proc = "up"
    /\ \E h \in running, disk_ok \in BOOLEAN :
         /\ h.pc = "save_write"
         /\ file' = IF disk_ok THEN save_index(index) ELSE file
         /\ running' = running \ {h}
         /\ resp' = Response("add_file", 200, "", h.file_id, h.created, 0, <<>>)
         /\ acked' = acked \cup {h.file_id}
    /\ UNCHANGED <<proc, index, queued>>

\* search_files after index.knn_query (line 57) gave r: the results, or the
\* exception
SearchResponse(k, r) ==
    Response("search", IF r.ok THEN 200 ELSE 500, r.error, PyInt(0), FALSE, k, r.results)

\* search_files (lines 55-61)
SearchFiles ==
    /\ proc = "up"
    /\ queued > 0
    /\ LoopFree
    /\ \E query_emb \in QueryEmbeddings, k \in KValues :
         resp' = SearchResponse(k, knn_query(index, query_emb, k))
    /\ queued' = queued - 1
    /\ UNCHANGED <<proc, index, file, running, acked>>

\* the process is stopped (or dies) at any point; memory is lost, the file
\* stays as it is
Kill ==
    /\ proc = "up"
    /\ proc' = "down"
    /\ index' = NoIndex
    /\ queued' = 0
    /\ running' = {}
    /\ resp' = NoResp
    /\ UNCHANGED <<file, acked>>

Next ==
    \/ Startup
    \/ Arrive
    \/ AddItems
    \/ SaveOpen
    \/ SaveWrite
    \/ SearchFiles
    \/ Kill

Spec == Init /\ [][Next]_vars

\* --------------------------------------------------------------- typing
TypeOK ==
    /\ proc \in {"down", "up", "failed"}
    /\ queued \in 0..MaxQueued
    /\ acked \subseteq FileIds
    /\ proc = "up" => index.initialized

\* ------------------------------------------------------------- properties
LabelsIn(idx) == {idx.data[i].label : i \in DOMAIN idx.data}

\* the ids a restart would find at INDEX_PATH
FileLabels ==
    IF file.kind = "artifact"
    THEN {file.data[i].label : i \in 1..file.cur_element_count}
    ELSE {}

VecOf(idx, label) == idx.data[idx.label_lookup[label]].vec

\* the file ids that can be labels
LabelIds == {i \in FileIds : InLabelRange(i)}

\* the file ids whose label the index stores
StoredIds(idx) == {i \in FileIds : InLabelRange(i) /\ ToLabel(i) \in LabelsIn(idx)}

WrongLengthVectors == VectorsOfLen(Dim - 1) \cup VectorsOfLen(Dim + 1)

\* a request was handled in this step (AddItems or SearchFiles)
HandlerStarted == proc' = "up" /\ queued' = queued - 1

\* r is the outcome of a successful add that created no entry and changed
\* nothing of idx but the vector of label, now the direction of embedding
UpdatedInPlace(idx, embedding, label, r) ==
    /\ r.ok /\ ~r.created
    /\ LabelsIn(r.index) = LabelsIn(idx)
    /\ Len(r.index.data) = Len(idx.data)
    /\ r.index.label_lookup = idx.label_lookup
    /\ VecOf(r.index, label) = Normalize(embedding)
    /\ \A other \in LabelsIn(idx) \ {label} : VecOf(r.index, other) = VecOf(idx, other)

\* r is a refusal with the given error that left idx as it was
Refused(idx, error, r) == ~r.ok /\ r.error = error /\ r.index = idx

\* C1 as the spec states it: an add whose id already has an entry never
\* succeeds -- no add_file gets past add_items with an id that was already
\* stored (and so the stored entry is never overwritten).
C1_DuplicateAddRejected ==
    /\ \A h \in running : h.created
    /\ (resp.op = "add_file" /\ resp.status = 200) => resp.created

\* C1 amended: in every reachable index state, add_items with a vector of
\* length dim under an id that already has an entry succeeds; it keeps the set
\* of ids, the number of entries and every other entry's vector, and replaces
\* that id's vector by the (normalised) new one.
C1_DuplicateAddUpdatesInPlace ==
    proc = "up" =>
        \A file_id \in StoredIds(index), embedding \in Vectors :
            UpdatedInPlace(index, embedding, ToLabel(file_id),
                           add_items(index, embedding, file_id))

\* C1 witness: an add_file whose id was already stored has passed add_items.
C1_Witness == \E h \in running : ~h.created

C3_StoredVectorsHaveDim ==
    /\ proc = "up" =>
          /\ \A i \in DOMAIN index.data : Len(index.data[i].vec) = Dim
          /\ \A file_id \in FileIds, embedding \in WrongLengthVectors :
                Refused(index, "DimensionMismatch", add_items(index, embedding, file_id))
    /\ file.kind = "artifact" =>
          \A i \in DOMAIN file.data : Len(file.data[i].vec) = Dim
    /\ resp.error = "DimensionMismatch" =>
          resp.op = "add_file" /\ resp.status = 500 /\ running = {}

\* the step that answers DimensionMismatch changes neither index nor artifact
C3_MismatchStepChangesNothing ==
    (HandlerStarted /\ resp'.error = "DimensionMismatch") =>
        index' = index /\ file' = file /\ running' = running /\ acked' = acked

\* C3: an add whose vector length is not dim fails with DimensionMismatch and
\* changes nothing: every stored and every persisted vector has length dim
\* (none is padded or cut), add_items refuses every vector of another length
\* and returns the index unchanged, and the step that answers
\* DimensionMismatch leaves the index and the artifact untouched and starts
\* no save.
C3_DimensionMismatch ==
    [](C3_StoredVectorsHaveDim) /\ [][C3_MismatchStepChangesNothing]_vars

\* C3 witness: an add_file was answered with DimensionMismatch while the
\* index held an entry.
C3_Witness ==
    resp.op = "add_file" /\ resp.error = "DimensionMismatch" /\ Len(index.data) > 0

\* C4 as the spec states it: every search with k > 0 is answered without an
\* error by exactly min(k, number of entries) results.
C4_SearchReturnsMinOfKAndCount ==
    (resp.op = "search" /\ resp.k > 0) =>
        /\ resp.status = 200
        /\ Len(resp.results) = Min(resp.k, Len(index.data))

Distinguished(idx, label) ==
    /\ Dot(VecOf(idx, label), VecOf(idx, label)) > 0
    /\ \A other \in LabelsIn(idx) \ {label} : VecOf(idx, other) # VecOf(idx, label)

C7_FailedLoadKeepsServing ==
    (file.kind = "truncated" /\ proc # "down") =>
        proc = "up" /\ index.initialized

\* at most one handler is between its start and its return
C8_OneHandlerAtATime == Cardinality(running) <= 1

\* a handler (an add or a search) starts only when no other is in that span
C8_StartsOnlyWhenLoopFree == HandlerStarted => running = {}

\* C8: requests are serialized: at most one handler is between its start and
\* its return, and a handler (an add or a search) starts only when no other is
\* in that span; so no search and no save sees the index between another
\* request's add_items and the end of its save, and no two adds or saves
\* overlap.
C8_Serialized == [](C8_OneHandlerAtATime) /\ [][C8_StartsOnlyWhenLoopFree]_vars

\* C8 witness: a request is waiting while an add is inside save_index.
C8_Witness == queued > 0 /\ \E h \in running : h.pc = "save_write"

\* C9 as the spec states it: a search with k <= 0 is answered by an error.
C9_NonPositiveKFails ==
    (resp.op = "search" /\ resp.k <= 0) => resp.status # 200

\* C10 as stated: at every point a restart finds at INDEX_PATH every id whose
\* add_file returned success, and when add_file returns an error the index
\* and the artifact hold the same ids.
C10_AckedAddsAreDurable ==
    /\ {ToLabel(i) : i \in acked} \subseteq FileLabels
    /\ (resp.op = "add_file" /\ resp.status = 500) => LabelsIn(index) = FileLabels

====
